---- MODULE Spec2Model ----
(***************************************************************************)
(* Aave V3 USDC supply analysis: the connection manager                    *)
(* (aave_usdc_analysis/connection.py), the supply event fetcher            *)
(* (rotation/event_fetcher.py) and the main script that drives them        *)
(* (aave_usdc_analysis/main.py), as one sequential state machine.          *)
(*                                                                         *)
(* A connection (a Web3 object over an HTTPProvider) is represented by the *)
(* index of the endpoint its provider points at; None is "no object".      *)
(* A record of all_events is represented by its block_number: the chain    *)
(* of the model carries at most one Supply log per block.                  *)
(***************************************************************************)
EXTENDS Integers, Sequences, FiniteSets, TLC

\* ---------------------------------------------------------------- bounds
\* len(self.rpc_endpoints)
NumEndpoints == 2
\* highest head block the node reports
MaxHead == 6
\* largest target_count handed to fetch_supply_events
MaxTarget == 2
\* width of a window in blocks (10000 in the source, scaled down)
BLOCKS_PER_BATCH == 1
\* distinct on_behalf_of addresses
NumAddresses == 2
\* most records handed to SupplyEventAnalyzer
MaxRecords == 2
\* largest n handed to _top_n_percentage and get_top_suppliers
MaxTopN == 3
\* most records handed to enrich_events_with_timestamps
MaxEnrichLen == 3
\* highest block number among those records
MaxEnrichBlock == 2
\* largest timestamp a block carries
MaxTimestamp == 2

\* ------------------------------------------------------ program constants
MAX_RETRIES == 3
max_attempts == 5

None == -1
Endpoints == 0 .. (NumEndpoints - 1)

\* What a block of the chain holds for the filter: no matching log, a log
\* that decodes, or a log whose decoding raises.
LogStatus == {"none", "good", "bad"}

\* Exception classes an operation can raise; the first two are the ones
\* execute_with_retry catches.
ErrorKinds == {"Web3Exception", "RequestException", "OtherError"}

VARIABLES
    pc,                 \* position of the main script
    exit_status,        \* None while running, 0 on return, 1 on sys.exit(1)
    error,              \* class of the exception in flight / last raised
    current_rpc_index,  \* Web3ConnectionManager.current_rpc_index
    w3,                 \* Web3ConnectionManager.w3
    connCaller,         \* who runs _connect: "ctor" or "exec"
    probed,             \* endpoints probed by the running _connect pass
    retries,            \* execute_with_retry: retries
    last_exception,     \* execute_with_retry: last_exception
    execCaller,         \* which operation execute_with_retry runs
    exec_status,        \* "idle", "running", "returned", "raised",
                        \* "interrupted"
    invocations,        \* calls of func made by this execute_with_retry
    sleeps,             \* time.sleep(RETRY_DELAY) calls of this call
    lastInvoke,         \* last call of func: its connection, the manager's
    main_w3,            \* main: local w3
    fetcher_w3,         \* SupplyEventFetcher.w3
    target_count,       \* fetch_supply_events: target_count
    current_block,      \* fetch_supply_events: current_block
    all_events,         \* fetch_supply_events: all_events
    from_block,         \* fetch_supply_events: from_block
    to_block,           \* fetch_supply_events: to_block
    attempt,            \* fetch_supply_events: attempt
    events,             \* fetch_supply_events: events (raw logs of a window)
    result,             \* fetch_supply_events: result
    queries,            \* window queries issued by this fetch
    failed_queries,     \* window queries of this fetch that raised
    query_w3,           \* connections the window queries were issued on
    fetch_status,       \* "idle", "running", "returned", "raised",
                        \* "interrupted", "over"
    edge,               \* the chain's log status at block from_block
    fetch_slept,        \* time this fetch has spent in time.sleep
    warned,             \* fetch_supply_events printed its no-events warning
    diagnostic,         \* what main's handlers printed: "none", "error",
                        \* "interrupted"
    written             \* output files written by save_to_csv

connVars == <<current_rpc_index, w3, connCaller, probed>>
execVars == <<retries, last_exception, execCaller, exec_status, invocations,
              sleeps, lastInvoke>>
fetchVars == <<target_count, current_block, all_events, from_block, to_block,
               attempt, events, result, queries, failed_queries, query_w3,
               fetch_status, edge, fetch_slept>>
outVars == <<warned, diagnostic, written>>

\* SupplyEventFetcher.enrich_events_with_timestamps, called on its own
VARIABLES
    en_pc,              \* "idle", "start", "loop", "attach", "returned"
    en_events,          \* the events argument: block_number of each record,
                        \* and after the last loop its timestamp
    unique_blocks,      \* list(set(block numbers))
    en_i,               \* index of the block the first loop is at
    block_timestamps,   \* the dict block -> timestamp
    lookups,            \* bag of the blocks get_block_timestamp was called on
    failed_lookups      \* blocks whose execute_with_retry raised

enrichVars == <<en_pc, en_events, unique_blocks, en_i, block_timestamps,
                lookups, failed_lookups>>

\* SupplyEventAnalyzer and the calls made on it
VARIABLES
    an_op,              \* the last call: "none", "init", "analyze", "whales",
                        \* "top_n", "sizes", "top_suppliers"
    an_n,               \* its argument n, None when it has none
    an_events,          \* self.df: on_behalf_of and amount_usdc of each row
    an_error,           \* class of the exception the last call raised
    an_ret,             \* what the last call returned, <<>> when it raised
    an_prev,            \* argument and result of the _top_n_percentage call
                        \* that came just before the last call
    an_sorted,          \* the rows of this frame as sort_values orders them
    an_whale            \* the whale the last analyze() reported

analyzerVars == <<an_op, an_n, an_events, an_error, an_ret, an_prev,
                  an_sorted, an_whale>>

\* main's step 2 and the get_implementation_address call it makes
VARIABLES
    im_pc,              \* "idle", "loop", "returned", "raised", "done"
    contract_address,   \* main: contract_address
    im_tried,           \* names of the candidate methods called so far
    im_failed,          \* names of the candidates whose call raised
    im_ret,             \* what get_implementation_address returned
    im_error            \* class of the exception it raised

implVars == <<im_pc, contract_address, im_tried, im_failed, im_ret, im_error>>
libVars == <<enrichVars, analyzerVars, implVars>>
mainVars == <<pc, exit_status, error, connVars, execVars, main_w3, fetcher_w3,
              fetchVars, outVars>>
vars == <<mainVars, libVars>>

Min(a, b) == IF a < b THEN a ELSE b
Max(a, b) == IF a > b THEN a ELSE b

\* ------------------------------------------------------ connection manager

\* _rotate_rpc with the cursor left where it is
RotateRpcStuck(i) == i

\* _rotate_rpc stopping at the end of the list instead of wrapping
RotateRpcNoWrap(i) == IF i + 1 < NumEndpoints THEN i + 1 ELSE i

\* _rotate_rpc: (current_rpc_index + 1) % len(rpc_endpoints)
RotateRpc(i) == (i + 1) % NumEndpoints

\* the except clause widened to every exception class
IsTransientAny(kind) == kind \in ErrorKinds

\* except (Web3Exception, requests.exceptions.RequestException)
IsTransient(kind) == kind \in {"Web3Exception", "RequestException"}

\* the while condition with <= for <
ExecLoopGuardInclusive(r) == r <= MAX_RETRIES * NumEndpoints

\* while retries < MAX_RETRIES * len(self.rpc_endpoints)
ExecLoopGuard(r) == r < MAX_RETRIES * NumEndpoints

\* the failed head-block read taken as a fetch that came back
FetchStatusSwallowed ==
    IF execCaller = "block_number" /\ fetch_status = "running"
    THEN "returned" ELSE fetch_status

\* An exception leaving execute_with_retry leaves fetch_supply_events too
\* when it is the head-block read: the call is not inside a try.
FetchStatusOnRaise ==
    IF execCaller = "block_number" /\ fetch_status = "running"
    THEN "raised" ELSE fetch_status

\* Web3ConnectionManager(POLYGON_RPC_ENDPOINTS): the fields are set and the
\* first _connect pass starts.
Construct ==
    /\ pc = "start"
    /\ current_rpc_index' = 0
    /\ w3' = None
    /\ connCaller' = "ctor"
    /\ probed' = <<>>
    /\ pc' = "connect"
    /\ UNCHANGED <<exit_status, error, execVars, main_w3, fetcher_w3, fetchVars>>
    /\ UNCHANGED outVars
    /\ UNCHANGED libVars

\* One iteration of the for loop of _connect whose liveness check answers:
\* the new Web3 object is the current connection and _connect returns.
ProbeConnected ==
    /\ pc = "connect"
    /\ Len(probed) < NumEndpoints
    /\ probed' = Append(probed, current_rpc_index)
    /\ w3' = current_rpc_index
    /\ pc' = IF connCaller = "ctor" THEN "main_get_web3" ELSE "exec"
    /\ UNCHANGED <<exit_status, error, current_rpc_index, connCaller, execVars,
                   main_w3, fetcher_w3, fetchVars>>
    /\ UNCHANGED outVars
    /\ UNCHANGED libVars

\* One iteration of the for loop of _connect whose liveness check fails
\* (is_connected() is False, or the probe raises): the cursor rotates; after
\* the last iteration ConnectionError is raised, which nothing catches
\* before main's except clause.
ProbeFailed ==
    /\ pc = "connect"
    /\ Len(probed) < NumEndpoints
    /\ \E how \in {"not_connected", "raises"} :
         \* self.w3 is assigned when the Web3 object could be built
         w3' \in IF how = "raises" THEN {w3, current_rpc_index}
                 ELSE {current_rpc_index}
    /\ probed' = Append(probed, current_rpc_index)
    /\ current_rpc_index' = RotateRpc(current_rpc_index)
    /\ IF Len(probed') = NumEndpoints
       THEN /\ error' = "ConnectionError"
            /\ pc' = "main_except"
            /\ exec_status' = IF connCaller = "exec" THEN "raised"
                              ELSE exec_status
            /\ fetch_status' = IF connCaller = "exec" THEN FetchStatusOnRaise
                               ELSE fetch_status
       ELSE /\ pc' = "connect"
            /\ UNCHANGED <<error, exec_status, fetch_status>>
    /\ UNCHANGED <<exit_status, connCaller, retries, last_exception, execCaller,
                   invocations, sleeps, lastInvoke, main_w3, fetcher_w3,
                   target_count, current_block, all_events, from_block, to_block,
                   attempt, events, result, queries, failed_queries, query_w3,
                   fetch_slept, edge>>
    /\ UNCHANGED outVars
    /\ UNCHANGED libVars

\* The connection the running operation was built on: main's local w3 for
\* the chain id, the fetcher's self.w3 for the head block and for the block
\* of a timestamp lookup.
OpConnection == IF execCaller = "chain_id" THEN main_w3 ELSE fetcher_w3

\* func() returns: execute_with_retry returns its value to the caller.
InvokeOk ==
    /\ pc = "exec"
    /\ ExecLoopGuard(retries)
    /\ lastInvoke' = [target |-> OpConnection, current |-> w3, raised |-> "none"]
    /\ exec_status' = "returned"
    /\ IF execCaller = "chain_id"
       THEN /\ pc' = "main_step2"
            /\ UNCHANGED fetchVars
       ELSE IF execCaller = "get_block"
       THEN /\ pc' = "lookup_returned"
            /\ UNCHANGED fetchVars
       ELSE /\ \E head \in 0 .. MaxHead, s \in LogStatus :
                 /\ current_block' = head
                 /\ from_block' = head
                 /\ edge' = s
            /\ all_events' = <<>>
            /\ attempt' = 0
            /\ queries' = 0
            /\ failed_queries' = 0
            /\ query_w3' = {}
            /\ fetch_slept' = 0
            /\ pc' = "fetch_loop"
            /\ UNCHANGED <<target_count, to_block, events, result, fetch_status>>
    \* the frame of the call and of its _connect passes is gone
    /\ retries' = 0
    /\ last_exception' = "none"
    /\ invocations' = 0
    /\ sleeps' = 0
    /\ probed' = <<>>
    /\ UNCHANGED <<exit_status, error, current_rpc_index, w3, connCaller,
                   execCaller, main_w3, fetcher_w3>>
    /\ UNCHANGED outVars
    /\ UNCHANGED libVars

\* the rotation taken one failure late
RotationDueLate(r) == r % (MAX_RETRIES + 1) = 0

\* if retries % MAX_RETRIES == 0
RotationDue(r) == r % MAX_RETRIES = 0

\* func() raises: a transient error is counted and followed by a sleep or,
\* every MAX_RETRIES failures, by a rotation and a _connect pass; any other
\* error leaves execute_with_retry at once.
InvokeRaises ==
    /\ pc = "exec"
    /\ ExecLoopGuard(retries)
    /\ \E kind \in ErrorKinds :
         /\ invocations' = invocations + 1
         /\ lastInvoke' = [target |-> OpConnection, current |-> w3, raised |-> kind]
         /\ IF IsTransient(kind)
            THEN /\ last_exception' = kind
                 /\ retries' = retries + 1
                 /\ IF RotationDue(retries')
                    THEN /\ current_rpc_index' = RotateRpc(current_rpc_index)
                         /\ connCaller' = "exec"
                         /\ probed' = <<>>
                         /\ pc' = "connect"
                         /\ UNCHANGED sleeps
                    ELSE /\ sleeps' = sleeps + 1
                         /\ pc' = "exec"
                         /\ UNCHANGED <<current_rpc_index, connCaller, probed>>
                 /\ UNCHANGED <<error, exec_status, fetch_status>>
            ELSE /\ error' = kind
                 /\ exec_status' = "raised"
                 /\ fetch_status' = FetchStatusOnRaise
                 /\ pc' = "main_except"
                 /\ UNCHANGED <<last_exception, retries, sleeps,
                                current_rpc_index, connCaller, probed>>
    /\ UNCHANGED <<exit_status, w3, execCaller, main_w3, fetcher_w3,
                   target_count, current_block, all_events, from_block, to_block,
                   attempt, events, result, queries, failed_queries, query_w3,
                   fetch_slept, edge>>
    /\ UNCHANGED outVars
    /\ UNCHANGED libVars

\* The while loop ends: raise last_exception or Exception(...).
GiveUp ==
    /\ pc = "exec"
    /\ ~ExecLoopGuard(retries)
    /\ error' = IF last_exception # "none" THEN last_exception ELSE "OtherError"
    /\ exec_status' = "raised"
    /\ fetch_status' = FetchStatusOnRaise
    /\ pc' = "main_except"
    /\ UNCHANGED <<exit_status, connVars, retries, last_exception, execCaller,
                   invocations, sleeps, lastInvoke, main_w3, fetcher_w3,
                   target_count, current_block, all_events, from_block, to_block,
                   attempt, events, result, queries, failed_queries, query_w3,
                   fetch_slept, edge>>
    /\ UNCHANGED outVars
    /\ UNCHANGED libVars

\* ------------------------------------------- get_block_timestamp calls
\* SupplyEventFetcher(conn_mgr, contract) made on a manager whose constructor
\* has returned: self.w3 = connection_manager.get_web3()
LookupFetcherInit ==
    /\ pc = "main_get_web3"
    /\ fetcher_w3' = w3
    /\ pc' = "lookup_idle"
    /\ UNCHANGED <<exit_status, error, connVars, execVars, main_w3, fetchVars>>
    /\ UNCHANGED outVars
    /\ UNCHANGED libVars

\* get_block_timestamp(block_number): execute_with_retry is entered with the
\* get_block lambda, whatever the previous lookup ended with
LookupCall ==
    /\ pc \in {"lookup_idle", "lookup_returned"}
    /\ retries' = 0
    /\ last_exception' = "none"
    /\ execCaller' = "get_block"
    /\ exec_status' = "running"
    /\ invocations' = 0
    /\ sleeps' = 0
    /\ probed' = <<>>
    /\ pc' = "exec"
    /\ UNCHANGED <<exit_status, error, current_rpc_index, w3, connCaller,
                   lastInvoke, main_w3, fetcher_w3, fetchVars>>
    /\ UNCHANGED outVars
    /\ UNCHANGED libVars

\* get_block_timestamp: except Exception catches whatever left
\* execute_with_retry, prints a warning and returns 0
LookupCaught ==
    /\ pc = "main_except"
    /\ execCaller = "get_block"
    /\ exec_status = "raised"
    /\ error' = "none"
    /\ pc' = "lookup_returned"
    /\ UNCHANGED <<exit_status, connVars, execVars, main_w3, fetcher_w3,
                   fetchVars>>
    /\ UNCHANGED outVars
    /\ UNCHANGED libVars

\* ------------------------------------------------------------ event fetcher

\* the slice taken one element too long
TruncateOffByOne(evs, n) == SubSeq(evs, 1, Min(Len(evs), n + 1))

\* all_events[:target_count], target_count >= 0
Truncate(evs, n) == SubSeq(evs, 1, Min(Len(evs), n))

\* the loop condition with the failure cap tested by <=
FetchLoopGuardInclusive(n, target, fb, att) ==
    n < target /\ fb > 0 /\ att <= max_attempts

\* while len(all_events) < target_count and from_block > 0
\*       and attempt < max_attempts
FetchLoopGuard(n, target, fb, att) ==
    n < target /\ fb > 0 /\ att < max_attempts

\* the next window starting one block below the previous lower bound
WindowUpperGapped(prev_from) == Max(0, prev_from - 1)

\* every window ending at the head block
WindowUpperAtHead(prev_from) == current_block

\* to_block = from_block
WindowUpper(prev_from) == prev_from

\* from_block = max(0, to_block - BLOCKS_PER_BATCH)
WindowLower(to) == Max(0, to - BLOCKS_PER_BATCH)

\* the fixed delay of execute_with_retry used in the window loop
BackoffFixed(att) == 2

\* time.sleep(2 ** attempt)
Backoff(att) == 2 ^ att

\* the except clause without its increment
AttemptAfterFailureForgotten(att) == att

\* attempt += 1
AttemptAfterFailure(att) == att + 1

\* event_filter.get_all_entries(): the logs of blocks fromBlock..toBlock,
\* both ends included, in chain order (ascending block number).
RECURSIVE GetAllEntries(_, _, _)
GetAllEntries(fb, tb, view) ==
    IF fb > tb THEN <<>>
    ELSE (IF view[fb] = "none" THEN <<>>
          ELSE <<[blockNumber |-> fb, decodes |-> view[fb] = "good"]>>)
         \o GetAllEntries(fb + 1, tb, view)

\* _parse_supply_event: the record of a log, None when decoding raises
ParseSupplyEvent(event) ==
    IF event.decodes THEN event.blockNumber ELSE None

\* the parsing loop leaving at the first log that fails to decode
RECURSIVE ParsedEventsUntilFailure(_)
ParsedEventsUntilFailure(evs) ==
    IF evs = <<>> THEN <<>>
    ELSE IF ParseSupplyEvent(Head(evs)) = None THEN <<>>
         ELSE <<ParseSupplyEvent(Head(evs))>> \o ParsedEventsUntilFailure(Tail(evs))

\* for event in events: parsed_event = ...; if parsed_event: append
RECURSIVE ParsedEvents(_)
ParsedEvents(evs) ==
    IF evs = <<>> THEN <<>>
    ELSE (IF ParseSupplyEvent(Head(evs)) = None THEN <<>>
          ELSE <<ParseSupplyEvent(Head(evs))>>)
         \o ParsedEvents(Tail(evs))

\* SupplyEventFetcher(conn_mgr, contract): self.w3 is the manager's
\* connection of that moment.
FetcherInit ==
    /\ pc = "main_step3"
    /\ fetcher_w3' = w3
    /\ pc' = "fetch_start"
    /\ UNCHANGED <<exit_status, error, connVars, execVars, main_w3, fetchVars>>
    /\ UNCHANGED outVars
    /\ UNCHANGED libVars

\* fetch_supply_events(target_count): the head block is read through
\* execute_with_retry.
FetchBegin ==
    /\ pc = "fetch_start"
    /\ target_count' \in 0 .. MaxTarget
    /\ retries' = 0
    /\ last_exception' = "none"
    /\ execCaller' = "block_number"
    /\ exec_status' = "running"
    /\ invocations' = 0
    /\ sleeps' = 0
    /\ fetch_status' = "running"
    /\ pc' = "exec"
    /\ UNCHANGED <<exit_status, error, connVars, lastInvoke, main_w3, fetcher_w3,
                   current_block, all_events, from_block, to_block, attempt,
                   events, result, queries, failed_queries, query_w3,
                   fetch_slept, edge>>
    /\ UNCHANGED outVars
    /\ UNCHANGED libVars

\* load_contract(w3, ...) in main binds the contract, and with it every
\* filter made from self.contract, to main's w3
ContractConnection(loaded_on) == loaded_on

\* an except clause that rotates the manager and reconnects
ManagerRotatedOnFailure(mgr) == <<RotateRpc(mgr[1]), RotateRpc(mgr[1])>>

\* the except clause of the while loop prints, counts and sleeps: the
\* manager's cursor and connection <<current_rpc_index, w3>> stay as they are
ManagerAfterQueryFailure(mgr) == mgr

\* One iteration of the while loop whose query succeeds: the logs of the
\* window are parsed and appended.
QueryWindowOk ==
    /\ pc = "fetch_loop"
    /\ FetchLoopGuard(Len(all_events), target_count, from_block, attempt)
    /\ to_block' = WindowUpper(from_block)
    /\ from_block' = WindowLower(to_block')
    /\ \E fresh \in [from_block' .. (to_block' - 1) -> LogStatus] :
         LET view == [b \in from_block' .. to_block' |->
                        IF b = to_block' THEN edge ELSE fresh[b]]
         IN  /\ events' = GetAllEntries(from_block', to_block', view)
             /\ edge' = fresh[from_block']
    /\ all_events' = IF events' # <<>> THEN all_events \o ParsedEvents(events')
                     ELSE all_events
    /\ queries' = queries + 1
    /\ query_w3' = query_w3 \cup {ContractConnection(main_w3)}
    /\ UNCHANGED <<pc, exit_status, error, connVars, execVars, main_w3,
                   fetcher_w3, target_count, current_block, attempt, result,
                   failed_queries, fetch_slept, fetch_status>>
    /\ UNCHANGED outVars
    /\ UNCHANGED libVars

\* One iteration of the while loop whose query raises: the failure is
\* counted and followed by time.sleep(2 ** attempt).
QueryWindowFailed ==
    /\ pc = "fetch_loop"
    /\ FetchLoopGuard(Len(all_events), target_count, from_block, attempt)
    /\ to_block' = WindowUpper(from_block)
    /\ from_block' = WindowLower(to_block')
    /\ edge' \in LogStatus
    /\ attempt' = AttemptAfterFailure(attempt)
    /\ queries' = queries + 1
    /\ query_w3' = query_w3 \cup {ContractConnection(main_w3)}
    /\ failed_queries' = failed_queries + 1
    /\ fetch_slept' = fetch_slept + Backoff(attempt')
    /\ LET mgr == ManagerAfterQueryFailure(<<current_rpc_index, w3>>)
       IN  /\ current_rpc_index' = mgr[1]
           /\ w3' = mgr[2]
    /\ UNCHANGED <<pc, exit_status, error, connCaller, probed, execVars,
                   main_w3, fetcher_w3, target_count, current_block, all_events, events,
                   result, fetch_status>>
    /\ UNCHANGED outVars
    /\ UNCHANGED libVars

\* a warning that is never printed
WarnsNever(res) == FALSE

\* if len(result) == 0: print("WARNING: No events were found...")
WarnsOnResult(res) == Len(res) = 0

\* The loop is over: the accumulated list is truncated and returned, with a
\* printed warning when it is empty.
FetchReturn ==
    /\ pc = "fetch_loop"
    /\ ~FetchLoopGuard(Len(all_events), target_count, from_block, attempt)
    /\ result' = Truncate(all_events, target_count)
    /\ warned' = WarnsOnResult(result')
    /\ fetch_status' = "returned"
    /\ pc' = "main_check"
    /\ UNCHANGED <<exit_status, error, connVars, execVars, main_w3, fetcher_w3,
                   target_count, current_block, all_events, from_block, to_block,
                   attempt, events, queries, failed_queries, query_w3,
                   fetch_slept, edge, diagnostic,
                   written>>
    /\ UNCHANGED libVars

\* --------------------------------------------------------------------- main

\* w3 = conn_mgr.get_web3(); conn_mgr.execute_with_retry(lambda: w3.eth.chain_id)
MainGetWeb3 ==
    /\ pc = "main_get_web3"
    /\ main_w3' = w3
    /\ retries' = 0
    /\ last_exception' = "none"
    /\ execCaller' = "chain_id"
    /\ exec_status' = "running"
    /\ invocations' = 0
    /\ sleeps' = 0
    /\ pc' = "exec"
    /\ UNCHANGED <<exit_status, error, connVars, lastInvoke, fetcher_w3, fetchVars>>
    /\ UNCHANGED outVars
    /\ UNCHANGED libVars

\* Step 2 of main: the contract is loaded on main's local w3.
PrepareContract ==
    /\ pc = "main_step2"
    /\ pc' = "main_step3"
    /\ UNCHANGED <<exit_status, error, connVars, execVars, main_w3, fetcher_w3,
                   fetchVars>>
    /\ UNCHANGED outVars
    /\ UNCHANGED libVars

\* fetch_supply_events has returned to main: of its frame only the returned
\* list (main's events) is left; the counts of the queries it issued stay.
FetchFrameDropped ==
    /\ target_count' = 0
    /\ current_block' = 0
    /\ all_events' = <<>>
    /\ from_block' = 0
    /\ to_block' = 0
    /\ attempt' = 0
    /\ events' = <<>>
    /\ edge' = "none"
    /\ fetch_status' = "over"
    /\ UNCHANGED <<result, queries, failed_queries, query_w3,
                   fetch_slept>>

\* the test of the fetched list left out
NoEventsUnchecked(evs) == FALSE

\* not events
NoEvents(evs) == evs = <<>>

\* if not events: return
MainNoEvents ==
    /\ pc = "main_check"
    /\ NoEvents(result)
    /\ pc' = "done"
    /\ exit_status' = 0
    /\ FetchFrameDropped
    /\ UNCHANGED <<error, connVars, execVars, main_w3, fetcher_w3, outVars>>
    /\ UNCHANGED libVars

\* Step 4 of main, run on a non-empty result: the analyzer is built and
\* analyze() returns, or an exception of the dataframe library leaves it.
MainAnalyze ==
    /\ pc = "main_check"
    /\ ~NoEvents(result)
    /\ \/ /\ pc' = "main_step5"
          /\ UNCHANGED error
       \/ /\ pc' = "main_except"
          /\ error' = "AnalysisError"
    /\ FetchFrameDropped
    /\ UNCHANGED <<exit_status, connVars, execVars, main_w3, fetcher_w3,
                   outVars>>
    /\ UNCHANGED libVars

\* save_to_csv, first half: self.df.to_csv(OUTPUT_CSV), which may raise.
SaveRawEvents ==
    /\ pc = "main_step5"
    /\ \/ /\ written' = written \cup {"raw_events"}
          /\ pc' = "save_summary"
          /\ UNCHANGED error
       \/ /\ pc' = "main_except"
          /\ error' = "OSError"
          /\ UNCHANGED written
    /\ UNCHANGED <<exit_status, connVars, execVars, main_w3, fetcher_w3,
                   fetchVars, warned, diagnostic>>
    /\ UNCHANGED libVars

\* save_to_csv, second half: top_suppliers.to_csv(SUMMARY_CSV), which may
\* raise.
SaveTopSuppliers ==
    /\ pc = "save_summary"
    /\ \/ /\ written' = written \cup {"top_suppliers"}
          /\ pc' = "main_report"
          /\ UNCHANGED error
       \/ /\ pc' = "main_except"
          /\ error' = "OSError"
          /\ UNCHANGED written
    /\ UNCHANGED <<exit_status, connVars, execVars, main_w3, fetcher_w3,
                   fetchVars, warned, diagnostic>>
    /\ UNCHANGED libVars

\* The top 10 suppliers and the output files are printed; main returns.
MainReport ==
    /\ pc = "main_report"
    /\ pc' = "done"
    /\ exit_status' = 0
    /\ UNCHANGED <<error, connVars, execVars, main_w3, fetcher_w3, fetchVars,
                   outVars>>
    /\ UNCHANGED libVars

\* the interrupt handler leaving with status 0
ExitStatusForgiving(err) == IF err = "KeyboardInterrupt" THEN 0 ELSE 1

\* sys.exit(1) of both handlers of main
ExitStatusFor(err) == 1

\* except Exception: print, traceback, sys.exit(1)
MainExcept ==
    /\ pc = "main_except"
    /\ diagnostic' = "error"
    /\ pc' = "exited"
    /\ exit_status' = ExitStatusFor(error)
    /\ UNCHANGED <<error, connVars, execVars, main_w3, fetcher_w3, fetchVars,
                   warned, written>>
    /\ UNCHANGED libVars

\* The positions inside the try block of main.
InsideTry ==
    pc \in {"start", "connect", "main_get_web3", "exec", "main_step2",
            "main_step3", "fetch_start", "fetch_loop", "main_check",
            "main_step5", "save_summary", "main_report"}

\* The user interrupts the script inside the try block: no except Exception
\* clause on the way catches KeyboardInterrupt, the frame of a running
\* fetch_supply_events is unwound, main's own handler prints and calls
\* sys.exit(1).
Interrupt ==
    /\ InsideTry
    /\ error' = "KeyboardInterrupt"
    /\ diagnostic' = "interrupted"
    /\ pc' = "exited"
    /\ exit_status' = ExitStatusFor("KeyboardInterrupt")
    /\ exec_status' = IF exec_status = "running" THEN "interrupted"
                      ELSE exec_status
    /\ fetch_status' = IF fetch_status = "running" THEN "interrupted"
                       ELSE IF fetch_status = "returned" THEN "over"
                       ELSE fetch_status
    /\ target_count' = 0
    /\ current_block' = 0
    /\ all_events' = <<>>
    /\ from_block' = 0
    /\ to_block' = 0
    /\ attempt' = 0
    /\ events' = <<>>
    /\ edge' = "none"
    /\ UNCHANGED <<connVars, retries, last_exception, execCaller, invocations,
                   sleeps, lastInvoke, main_w3, fetcher_w3, result, queries,
                   failed_queries, query_w3, fetch_slept, warned, written>>
    /\ UNCHANGED libVars

\* ------------------------------------------------ timestamp enrichment
\* the orders in which a set can be listed
Orderings(S) ==
    {f \in [1 .. Cardinality(S) -> S] :
        \A i, j \in 1 .. Cardinality(S) : i # j => f[i] # f[j]}

\* the block numbers listed once per record, nothing merged
BlocksPerRecord(evs) == {[i \in 1 .. Len(evs) |-> evs[i].block_number]}

\* list(set(event['block_number'] for event in events)): each distinct
\* block once, in the order the set happens to iterate
UniqueBlocks(evs) ==
    Orderings({evs[i].block_number : i \in 1 .. Len(evs)})

\* for event in events: event['timestamp'] = block_timestamps.get(bn, 0)
AttachTimestamps(evs, table) ==
    [i \in 1 .. Len(evs) |->
        [block_number |-> evs[i].block_number,
         timestamp |-> IF evs[i].block_number \in DOMAIN table
                       THEN table[evs[i].block_number] ELSE 0]]

\* enrich_events_with_timestamps is not running
EnrichIdle ==
    /\ en_pc = "idle"
    /\ en_events = <<>>
    /\ unique_blocks = <<>>
    /\ en_i = 0
    /\ block_timestamps = <<>>
    /\ lookups = <<>>
    /\ failed_lookups = {}

\* unique_blocks = list(set(...)); block_timestamps = {}
EnrichBegin ==
    /\ en_pc = "start"
    /\ unique_blocks' \in UniqueBlocks(en_events)
    /\ block_timestamps' = <<>>
    /\ en_i' = 1
    /\ en_pc' = "loop"
    /\ UNCHANGED <<en_events, lookups, failed_lookups, mainVars, analyzerVars, implVars>>

\* block_timestamps[block] = timestamp, the entry added or overwritten
Stored(table, block, timestamp) ==
    [b \in DOMAIN table \cup {block} |->
        IF b = block THEN timestamp ELSE table[b]]

\* get_block_timestamp(block) whose execute_with_retry returns the block
LookupOk ==
    /\ en_pc = "loop"
    /\ en_i <= Len(unique_blocks)
    /\ \E timestamp \in 1 .. MaxTimestamp :
         block_timestamps' =
             Stored(block_timestamps, unique_blocks[en_i], timestamp)
    /\ lookups' = lookups \o <<unique_blocks[en_i]>>
    /\ en_i' = en_i + 1
    /\ UNCHANGED <<en_pc, en_events, unique_blocks, failed_lookups, mainVars, analyzerVars, implVars>>

\* get_block_timestamp(block) whose execute_with_retry raises: the
\* exception is caught and 0 returned
LookupFailed ==
    /\ en_pc = "loop"
    /\ en_i <= Len(unique_blocks)
    /\ block_timestamps' = Stored(block_timestamps, unique_blocks[en_i], 0)
    /\ lookups' = lookups \o <<unique_blocks[en_i]>>
    /\ failed_lookups' = failed_lookups \cup {unique_blocks[en_i]}
    /\ en_i' = en_i + 1
    /\ UNCHANGED <<en_pc, en_events, unique_blocks, mainVars, analyzerVars, implVars>>

\* the second loop and the return
EnrichReturn ==
    /\ en_pc = "loop"
    /\ en_i > Len(unique_blocks)
    /\ en_events' = AttachTimestamps(en_events, block_timestamps)
    /\ en_pc' = "returned"
    /\ UNCHANGED <<unique_blocks, en_i, block_timestamps, lookups,
                   failed_lookups, mainVars, analyzerVars, implVars>>

\* ------------------------------------------------------------- analyzer
\* amounts in USDC, on and between the thresholds of the size categories
Amounts == {0, 1000, 10000, 100000}
Addresses == 1 .. NumAddresses

small_threshold == 1000
medium_threshold == 10000
large_threshold == 100000

RECURSIVE SeqSum(_)
\* Series.sum()
SeqSum(seq) == IF seq = <<>> THEN 0 ELSE Head(seq) + SeqSum(Tail(seq))

\* self.df['amount_usdc']
AmountColumn(evs) == [i \in 1 .. Len(evs) |-> evs[i].amount_usdc]

\* the amounts of the rows of one group of groupby('on_behalf_of')
GroupAmounts(evs, a) ==
    AmountColumn(SelectSeq(evs, LAMBDA e : e.on_behalf_of = a))

\* the group's amount aggregated as its first row
GroupFirst(evs, a) == Head(GroupAmounts(evs, a))

\* the group's amount aggregated with 'sum'
GroupSum(evs, a) == SeqSum(GroupAmounts(evs, a))

\* the group's amount aggregated with 'count'
GroupCount(evs, a) == Len(GroupAmounts(evs, a))

\* the keys of groupby('on_behalf_of')
Suppliers(evs) == {evs[i].on_behalf_of : i \in 1 .. Len(evs)}

\* a division of floats: num / den, with 0 / 0 the NaN of numpy
Percentage(part, total) == [num |-> part * 100, den |-> total]
IsNaN(p) == p.den = 0
\* p <= q; percentages of one frame share their denominator
PctLeq(p, q) ==
    IF p.den = q.den THEN p.num <= q.num
    ELSE p.num * q.den <= q.num * p.den

\* supplier_totals of _analyze_whales: one row per address, sorted by
\* total_usdc descending; the sort is not stable, equal totals come in an
\* order that is not known, though the same whenever the same frame is
\* sorted
SupplierTotals(evs) ==
    {[i \in 1 .. Len(f) |->
         [address |-> f[i], total_usdc |-> GroupSum(evs, f[i]),
          tx_count |-> GroupCount(evs, f[i])]] :
       f \in {g \in Orderings(Suppliers(evs)) :
                \A i, j \in 1 .. Len(g) :
                    i < j => GroupSum(evs, g[i]) >= GroupSum(evs, g[j])}}

\* DataFrame.head(n)
HeadRows(rows, n) == SubSeq(rows, 1, Min(n, Len(rows)))

\* the n-th largest total alone
NthLargest(evs, n) ==
    LET rows == CHOOSE r \in SupplierTotals(evs) : TRUE
    IN  IF n >= 1 /\ n <= Len(rows) THEN rows[n].total_usdc ELSE 0

\* supplier_totals.nlargest(n).sum()
TopNSupply(evs, n) ==
    LET rows == CHOOSE r \in SupplierTotals(evs) : TRUE
    IN  SeqSum([i \in 1 .. Min(n, Len(rows)) |-> rows[i].total_usdc])

\* _top_n_percentage(n) on a frame that has its columns
TopNPercentage(evs, n) ==
    Percentage(TopNSupply(evs, n), SeqSum(AmountColumn(evs)))

\* the last row taken for the first
BottomRow(rows) == rows[Len(rows)]

\* supplier_totals.iloc[0]
TopRow(rows) == rows[1]

\* _analyze_whales() on a frame that has its columns, for one outcome of
\* the sort
WhaleData(evs, rows) ==
    LET top_whale == TopRow(rows)
    IN  [address |-> top_whale.address,
         total_usdc |-> top_whale.total_usdc,
         tx_count |-> top_whale.tx_count,
         percentage |-> Percentage(top_whale.total_usdc,
                                   SeqSum(AmountColumn(evs))),
         all_whales |-> rows]

\* len(self.df[mask]) for a mask given as the set of rows it selects
CountRows(selected) == Cardinality(selected)

\* _analyze_transaction_sizes() on a frame that has its columns
TransactionSizes(evs) ==
    LET amount == AmountColumn(evs)
        rows == 1 .. Len(evs)
    IN  [small |-> CountRows({i \in rows : amount[i] < small_threshold}),
         medium |-> CountRows({i \in rows : amount[i] >= small_threshold
                                             /\ amount[i] < medium_threshold}),
         large |-> CountRows({i \in rows : amount[i] >= medium_threshold
                                            /\ amount[i] < large_threshold}),
         whale |-> CountRows({i \in rows : amount[i] >= large_threshold})]

\* pd.DataFrame([]) has no column: self.df['amount_usdc'] and
\* groupby('on_behalf_of') raise KeyError
HasColumns(evs) == evs # <<>>

NoTopN == [n |-> None, pct |-> Percentage(0, 1)]
NoWhale == [address |-> None, total_usdc |-> 0, tx_count |-> 0]

\* no analyzer has been constructed
AnalyzerIdle ==
    /\ an_op = "none"
    /\ an_n = None
    /\ an_events = <<>>
    /\ an_error = "none"
    /\ an_ret = <<>>
    /\ an_prev = NoTopN
    /\ an_sorted = <<>>
    /\ an_whale = NoWhale

\* the call raises KeyError
RaisesKeyError ==
    /\ an_error' = "KeyError"
    /\ an_ret' = <<>>

\* what every call shares.  The frame is read only, so what a call returns
\* does not depend on the calls before it: a behaviour makes one call on
\* the analyzer it has constructed, or a run of _top_n_percentage calls,
\* each remembering the one before it, or analyze() and then
\* get_top_suppliers(n) as main does, the whale of analyze() remembered.
Called(op, n) ==
    /\ \/ an_op = "init"
       \/ an_op = "top_n" /\ op = "top_n"
       \/ an_op = "analyze" /\ an_error = "none" /\ op = "top_suppliers"
    /\ an_whale' = IF op = "analyze" /\ HasColumns(an_events)
                   THEN [address |-> WhaleData(an_events, an_sorted).address,
                         total_usdc |->
                             WhaleData(an_events, an_sorted).total_usdc,
                         tx_count |-> WhaleData(an_events, an_sorted).tx_count]
                   ELSE an_whale
    /\ UNCHANGED an_sorted
    /\ an_op' = op
    /\ an_n' = n
    /\ an_prev' = IF an_op = "top_n" /\ an_error = "none"
                  THEN [n |-> an_n, pct |-> an_ret] ELSE NoTopN
    /\ UNCHANGED <<an_events, mainVars, enrichVars, implVars>>

\* analyze()
Analyze ==
    /\ Called("analyze", None)
    /\ IF HasColumns(an_events)
       THEN /\ an_error' = "none"
            /\ LET whale_data == WhaleData(an_events, an_sorted)
                   size_dist == TransactionSizes(an_events)
               IN  an_ret' =
                       [total_events |-> Len(an_events),
                        total_usdc_supplied |-> SeqSum(AmountColumn(an_events)),
                        unique_suppliers |-> Cardinality(Suppliers(an_events)),
                        top_whale_address |-> whale_data.address,
                        top_whale_total_usdc |-> whale_data.total_usdc,
                        top_whale_tx_count |-> whale_data.tx_count,
                        top_whale_percentage |-> whale_data.percentage,
                        top_10_suppliers_percentage |->
                            TopNPercentage(an_events, 10),
                        top_50_suppliers_percentage |->
                            TopNPercentage(an_events, 50),
                        small_tx_count |-> size_dist.small,
                        medium_tx_count |-> size_dist.medium,
                        large_tx_count |-> size_dist.large,
                        whale_tx_count |-> size_dist.whale]
       ELSE RaisesKeyError

\* _analyze_whales()
AnalyzeWhales ==
    /\ Called("whales", None)
    /\ IF HasColumns(an_events)
       THEN /\ an_error' = "none"
            /\ an_ret' = WhaleData(an_events, an_sorted)
       ELSE RaisesKeyError

\* _top_n_percentage(n)
TopNPercentageCall ==
    \E n \in 0 .. MaxTopN :
        /\ Called("top_n", n)
        /\ IF HasColumns(an_events)
           THEN /\ an_error' = "none"
                /\ an_ret' = TopNPercentage(an_events, n)
           ELSE RaisesKeyError

\* _analyze_transaction_sizes()
AnalyzeTransactionSizes ==
    /\ Called("sizes", None)
    /\ IF HasColumns(an_events)
       THEN /\ an_error' = "none"
            /\ an_ret' = TransactionSizes(an_events)
       ELSE RaisesKeyError

\* get_top_suppliers(n)
GetTopSuppliers ==
    \E n \in 0 .. MaxTopN :
        /\ Called("top_suppliers", n)
        /\ IF HasColumns(an_events)
           THEN /\ an_error' = "none"
                /\ an_ret' =
                     HeadRows(WhaleData(an_events, an_sorted).all_whales, n)
           ELSE RaisesKeyError

\* ------------------------------------------- implementation address
\* the proxy address main passes, AAVE_V3_POOL_ADDRESS
PoolAddress == "pool"

\* addresses a getter of the proxy can answer with
ImplAddresses == {"impl_a", "impl_b"}

\* proxy_abis in the opposite order
proxy_abis_reversed == <<"getImplementation", "implementation">>

\* get_implementation_address: the names of proxy_abis, in list order
proxy_abis == <<"implementation", "getImplementation">>

\* step 2 of main has not begun
ImplIdle ==
    /\ im_pc = "idle"
    /\ contract_address = "none"
    /\ im_tried = <<>>
    /\ im_failed = <<>>
    /\ im_ret = "none"
    /\ im_error = "none"

\* main: contract_address = AAVE_V3_POOL_ADDRESS, then the call of
\* get_implementation_address(w3, contract_address) enters its for loop
GetImplBegin ==
    /\ pc = "main_step2"
    /\ im_pc = "idle"
    /\ contract_address' = PoolAddress
    /\ im_pc' = "loop"
    /\ UNCHANGED <<im_tried, im_failed, im_ret, im_error>>
    /\ UNCHANGED <<mainVars, enrichVars, analyzerVars>>

\* the call of the next candidate answers: the function returns its answer
CandidateOk ==
    /\ pc = "main_step2"
    /\ im_pc = "loop"
    /\ Len(im_tried) < Len(proxy_abis)
    /\ im_tried' = Append(im_tried, proxy_abis[Len(im_tried) + 1])
    /\ \E a \in ImplAddresses : im_ret' = a
    /\ im_pc' = "returned"
    /\ UNCHANGED <<contract_address, im_failed, im_error>>
    /\ UNCHANGED <<mainVars, enrichVars, analyzerVars>>

\* the call of the next candidate raises: the except clause prints and the
\* loop goes on
CandidateFails ==
    /\ pc = "main_step2"
    /\ im_pc = "loop"
    /\ Len(im_tried) < Len(proxy_abis)
    /\ im_tried' = Append(im_tried, proxy_abis[Len(im_tried) + 1])
    /\ im_failed' = Append(im_failed, proxy_abis[Len(im_tried) + 1])
    /\ UNCHANGED <<im_pc, contract_address, im_ret, im_error>>
    /\ UNCHANGED <<mainVars, enrichVars, analyzerVars>>

\* the for loop is exhausted: raise ValueError
GetImplRaise ==
    /\ pc = "main_step2"
    /\ im_pc = "loop"
    /\ Len(im_tried) = Len(proxy_abis)
    /\ im_error' = "ValueError"
    /\ im_pc' = "raised"
    /\ UNCHANGED <<contract_address, im_tried, im_failed, im_ret>>
    /\ UNCHANGED <<mainVars, enrichVars, analyzerVars>>

\* main: contract_address = impl_address, then the ABI and the contract are
\* built for it
MainUseImpl ==
    /\ pc = "main_step2"
    /\ im_pc = "returned"
    /\ contract_address' = im_ret
    /\ im_pc' = "done"
    /\ pc' = "main_step3"
    /\ UNCHANGED <<im_tried, im_failed, im_ret, im_error>>
    /\ UNCHANGED <<exit_status, error, connVars, execVars, main_w3, fetcher_w3,
                   fetchVars>>
    /\ UNCHANGED outVars
    /\ UNCHANGED <<enrichVars, analyzerVars>>

\* main: except Exception as impl_error prints the fallback, contract_address
\* keeps the pool address, then the ABI and the contract are built for it
MainFallBack ==
    /\ pc = "main_step2"
    /\ im_pc = "raised"
    /\ im_pc' = "done"
    /\ pc' = "main_step3"
    /\ UNCHANGED <<contract_address, im_tried, im_failed, im_ret, im_error>>
    /\ UNCHANGED <<exit_status, error, connVars, execVars, main_w3, fetcher_w3,
                   fetchVars>>
    /\ UNCHANGED outVars
    /\ UNCHANGED <<enrichVars, analyzerVars>>

\* ------------------------------------------------------------ the script
MainStart ==
    /\ pc = "start"
    /\ exit_status = None
    /\ error = "none"
    /\ current_rpc_index = 0
    /\ w3 = None
    /\ connCaller = "ctor"
    /\ probed = <<>>
    /\ retries = 0
    /\ last_exception = "none"
    /\ execCaller = "chain_id"
    /\ exec_status = "idle"
    /\ invocations = 0
    /\ sleeps = 0
    /\ lastInvoke = [target |-> None, current |-> None, raised |-> "none"]
    /\ main_w3 = None
    /\ fetcher_w3 = None
    /\ target_count = 0
    /\ current_block = 0
    /\ all_events = <<>>
    /\ from_block = 0
    /\ to_block = 0
    /\ attempt = 0
    /\ events = <<>>
    /\ result = <<>>
    /\ queries = 0
    /\ failed_queries = 0
    /\ query_w3 = {}
    /\ fetch_slept = 0
    /\ fetch_status = "idle"
    /\ edge = "none"
    /\ warned = FALSE
    /\ diagnostic = "none"
    /\ written = {}

Init ==
    /\ MainStart
    /\ EnrichIdle
    /\ AnalyzerIdle
    /\ ImplIdle

Next ==
    \/ Construct
    \/ ProbeConnected
    \/ ProbeFailed
    \/ MainGetWeb3
    \/ InvokeOk
    \/ InvokeRaises
    \/ GiveUp
    \/ PrepareContract
    \/ FetcherInit
    \/ FetchBegin
    \/ QueryWindowOk
    \/ QueryWindowFailed
    \/ FetchReturn
    \/ MainNoEvents
    \/ MainAnalyze
    \/ SaveRawEvents
    \/ SaveTopSuppliers
    \/ MainReport
    \/ MainExcept
    \/ Interrupt

Spec == Init /\ [][Next]_vars

\* The script is sequential and blocking: whatever step is enabled is taken.
FairSpec == Spec /\ WF_vars(Next)

\* enrich_events_with_timestamps called on a list of fetched records
EnrichInit ==
    /\ MainStart
    /\ en_pc = "start"
    /\ \E n \in 0 .. MaxEnrichLen :
         en_events \in [1 .. n -> [block_number : 0 .. MaxEnrichBlock,
                                   timestamp : {None}]]
    /\ unique_blocks = <<>>
    /\ en_i = 0
    /\ block_timestamps = <<>>
    /\ lookups = <<>>
    /\ failed_lookups = {}
    /\ AnalyzerIdle
    /\ ImplIdle

EnrichNext ==
    \/ EnrichBegin
    \/ LookupOk
    \/ LookupFailed
    \/ EnrichReturn

EnrichSpec == EnrichInit /\ [][EnrichNext]_vars

\* SupplyEventAnalyzer(events) constructed on a list of records
AnalyzerInit ==
    /\ MainStart
    /\ EnrichIdle
    /\ an_op = "init"
    /\ an_n = None
    /\ \E n \in 0 .. MaxRecords :
         an_events \in [1 .. n -> [on_behalf_of : Addresses,
                                   amount_usdc : Amounts]]
    /\ an_error = "none"
    /\ an_ret = <<>>
    /\ an_prev = NoTopN
    /\ an_sorted \in IF HasColumns(an_events)
                      THEN SupplierTotals(an_events) ELSE {<<>>}
    /\ an_whale = NoWhale
    /\ ImplIdle

AnalyzerNext ==
    \/ Analyze
    \/ AnalyzeWhales
    \/ TopNPercentageCall
    \/ AnalyzeTransactionSizes
    \/ GetTopSuppliers

AnalyzerSpec == AnalyzerInit /\ [][AnalyzerNext]_vars

\* main when step 2 begins: the chain id has been read, on a connection the
\* manager made in its constructor or while retrying
MainAtStep2 ==
    /\ pc = "main_step2"
    /\ exit_status = None
    /\ error = "none"
    /\ \E c \in Endpoints, m \in Endpoints :
         /\ current_rpc_index = c
         /\ w3 = c
         /\ main_w3 = m
         /\ lastInvoke = [target |-> m, current |-> c, raised |-> "none"]
         /\ connCaller \in IF c = m THEN {"ctor", "exec"} ELSE {"exec"}
    /\ probed = <<>>
    /\ retries = 0
    /\ last_exception = "none"
    /\ execCaller = "chain_id"
    /\ exec_status = "returned"
    /\ invocations = 0
    /\ sleeps = 0
    /\ fetcher_w3 = None
    /\ target_count = 0
    /\ current_block = 0
    /\ all_events = <<>>
    /\ from_block = 0
    /\ to_block = 0
    /\ attempt = 0
    /\ events = <<>>
    /\ result = <<>>
    /\ queries = 0
    /\ failed_queries = 0
    /\ query_w3 = {}
    /\ fetch_slept = 0
    /\ fetch_status = "idle"
    /\ edge = "none"
    /\ warned = FALSE
    /\ diagnostic = "none"
    /\ written = {}

\* step 2 of main, get_implementation_address included
ImplInit ==
    /\ MainAtStep2
    /\ EnrichIdle
    /\ AnalyzerIdle
    /\ ImplIdle

ImplNext ==
    \/ GetImplBegin
    \/ CandidateOk
    \/ CandidateFails
    \/ GetImplRaise
    \/ MainUseImpl
    \/ MainFallBack
    \/ Interrupt

ImplSpec == ImplInit /\ [][ImplNext]_vars

\* a manager, a fetcher made on it, and any number of get_block_timestamp
\* calls, as the first loop of enrich_events_with_timestamps makes them
ManagerNext ==
    \/ Construct
    \/ ProbeConnected
    \/ ProbeFailed
    \/ LookupFetcherInit
    \/ LookupCall
    \/ InvokeOk
    \/ InvokeRaises
    \/ GiveUp
    \/ LookupCaught

ManagerSpec == Init /\ [][ManagerNext]_vars

\* ------------------------------------------------------------------ claims

RetryBudget == MAX_RETRIES * NumEndpoints

\* evs1 is a prefix of evs2
IsPrefix(evs1, evs2) ==
    /\ Len(evs1) <= Len(evs2)
    /\ \A i \in 1 .. Len(evs1) : evs1[i] = evs2[i]

\* C1: fetch_supply_events never returns more than target_count records:
\* the returned list has length min(accumulated count, target_count), and
\* is exactly target_count long whenever at least target_count records
\* were accumulated.
C1_ResultLength ==
    fetch_status = "returned" =>
        /\ Len(result) <= target_count
        /\ Len(result) = Min(Len(all_events), target_count)
        /\ (Len(all_events) >= target_count => Len(result) = target_count)

\* C1 witness: a fetch that accumulated more than a positive target_count
\* has returned.
C1_Witness ==
    /\ fetch_status = "returned"
    /\ target_count > 0
    /\ Len(all_events) > target_count
    /\ Len(result) = target_count

\* C2: whenever more records were accumulated than target_count, no record
\* dropped by the final truncation has a higher block number than a record
\* kept in the result.
C2_MostRecentKept ==
    fetch_status = "returned" =>
        \A i \in 1 .. Len(result) :
            \A j \in (Len(result) + 1) .. Len(all_events) :
                all_events[j] <= all_events[i]

\* C3: every call of execute_with_retry terminates; within one call the
\* operation is invoked at most MAX_RETRIES x (number of endpoints) times,
\* and exactly that many times when the call gives up on the transient
\* error (every invocation failed, every reconnection succeeded).
C3_BoundedRetries ==
    /\ [](/\ invocations <= RetryBudget
          /\ (exec_status = "raised" /\ IsTransient(error)
                => invocations = RetryBudget))
    /\ ((exec_status = "running") ~> (exec_status # "running"))

\* C3 witness: a call has given up after the whole budget of invocations.
C3_Witness ==
    /\ exec_status = "raised"
    /\ IsTransient(error)
    /\ invocations = RetryBudget

C5_InvokedOnCurrentConnection ==
    lastInvoke.target = lastInvoke.current

\* C6: when execute_with_retry gives up because its retry budget is used
\* up, the error it raises is the transient error raised by the last
\* invocation of the operation, whatever the liveness of the endpoints.
C6_GiveUpRaisesLastError ==
    (exec_status = "raised" /\ retries = RetryBudget) =>
        /\ IsTransient(error)
        /\ error = lastInvoke.raised

\* C7: an error of the operation that is not of the transient class leaves
\* execute_with_retry on its first occurrence: no sleep, no rotation, the
\* cursor and the current connection unchanged, and the operation is not
\* invoked again.
C7_OtherErrorPropagates ==
    /\ [][(pc = "exec" /\ invocations' = invocations + 1
             /\ lastInvoke'.raised = "OtherError")
          => /\ pc' = "main_except"
             /\ exec_status' = "raised"
             /\ error' = "OtherError"
             /\ sleeps' = sleeps
             /\ retries' = retries
             /\ current_rpc_index' = current_rpc_index
             /\ w3' = w3
             /\ probed' = probed]_vars
    /\ [][exec_status = "raised" =>
             /\ invocations' = invocations
             /\ sleeps' = sleeps
             /\ current_rpc_index' = current_rpc_index
             /\ w3' = w3]_vars

\* C7 witness: a non-transient error has left a call that had already
\* retried transient ones.
C7_Witness ==
    /\ exec_status = "raised"
    /\ error = "OtherError"
    /\ lastInvoke.raised = "OtherError"
    /\ retries > 0
    /\ pc = "main_except"

\* the step is not the arrival of the user's interrupt
NoInterrupt == error' # "KeyboardInterrupt"

\* C8: a window query is issued only while accumulated count <
\* target_count, the previous lower bound is > 0 and fewer than 5 queries
\* have failed; once one of the three no longer holds the fetch returns
\* and no further window is queried.
C8_QueryOnlyWhileGuard ==
    /\ [][queries' # queries =>
             /\ pc = "fetch_loop"
             /\ Len(all_events) < target_count
             /\ from_block > 0
             /\ failed_queries < max_attempts]_vars
    /\ [][(pc = "fetch_loop" /\ NoInterrupt
             /\ (\/ Len(all_events) >= target_count
                 \/ from_block = 0
                 \/ failed_queries >= max_attempts))
          => /\ queries' = queries
             /\ fetch_status' = "returned"]_vars
    /\ [][fetch_status = "returned" => queries' = queries]_vars

\* C8 witness: the 5th failure has ended a fetch that was short of its
\* target and above block 0.
C8_Witness ==
    /\ fetch_status = "returned"
    /\ failed_queries = max_attempts
    /\ from_block > 0
    /\ Len(all_events) < target_count
    /\ queries >= max_attempts

\* C9: a failing window query never makes the fetch raise: the failure is
\* counted, the fetch goes on with the next older window, and after the
\* 5th failure it returns normally with exactly the records accumulated by
\* the successful windows, truncated to target_count; accumulated records
\* are never lost.
C9_FailureIsNotFatal ==
    /\ [](fetch_status \in {"running", "returned"} /\ pc # "exec"
            => attempt = failed_queries)
    /\ [][failed_queries' # failed_queries =>
             /\ failed_queries' = failed_queries + 1
             /\ all_events' = all_events
             /\ error' = error
             /\ fetch_status' = "running"
             /\ pc' = "fetch_loop"
             /\ to_block' = from_block
             /\ from_block' < from_block]_vars
    /\ [][(pc = "fetch_loop" /\ failed_queries = max_attempts
             /\ NoInterrupt) =>
             /\ fetch_status' = "returned"
             /\ error' = error
             /\ IsPrefix(result', all_events)
             /\ Len(result') = Min(Len(all_events), target_count)]_vars
    /\ [][(pc = "fetch_loop" /\ NoInterrupt)
             => IsPrefix(all_events, all_events')]_vars

\* C9 witness: a fetch has returned records after its 5th failure.
C9_Witness ==
    /\ fetch_status = "returned"
    /\ failed_queries = max_attempts
    /\ result # <<>>
    /\ result = all_events
    /\ error = "none"

\* the logs of evs that fail to decode
Undecodable(evs) == {i \in 1 .. Len(evs) : ~evs[i].decodes}

\* C10: for a successful window returning k logs of which d fail to
\* decode, exactly the k-d decodable logs are appended to the accumulation
\* in their original order, the failed-attempt counter is not incremented,
\* and the fetch continues.
C10_DecodeFailureSkipped ==
    [][(queries' # queries /\ failed_queries' = failed_queries) =>
          LET k == Len(events')
              d == Cardinality(Undecodable(events'))
              n == Len(all_events)
          IN  /\ IsPrefix(all_events, all_events')
              /\ Len(all_events') = n + k - d
              /\ \E f \in [1 .. (k - d) -> 1 .. k] :
                    /\ \A a, b \in 1 .. (k - d) : a < b => f[a] < f[b]
                    /\ \A a \in 1 .. (k - d) :
                          /\ events'[f[a]].decodes
                          /\ all_events'[n + a] = events'[f[a]].blockNumber
              /\ attempt' = attempt
              /\ error' = error
              /\ pc' = "fetch_loop"]_vars

\* C10 witness: a window whose first log failed to decode and whose second
\* log decoded has been accumulated, with no failure counted.
C10_Witness ==
    /\ pc = "fetch_loop"
    /\ queries > 0
    /\ failed_queries = 0
    /\ attempt = 0
    /\ Len(events) >= 2
    /\ ~events[1].decodes
    /\ events[2].decodes
    /\ all_events # <<>>
    /\ all_events[Len(all_events)] = events[2].blockNumber

\* C11: when the windows of a fetch have decoded no record (head block 0,
\* target_count 0, every window empty or every window failing), the fetch
\* returns the empty list with the warning printed, and no step of the
\* window loop makes fetch_supply_events raise.
C11_EmptyResultWarns ==
    /\ [](fetch_status = "returned" /\ all_events = <<>>
            => result = <<>> /\ warned)
    /\ [][(pc = "fetch_loop" /\ NoInterrupt) =>
             /\ fetch_status' \in {"running", "returned"}
             /\ error' = error
             /\ pc' \in {"fetch_loop", "main_check"}]_vars

\* C11 witness: every window of a fetch above block 0 with a positive
\* target has failed, and the fetch has returned empty with the warning.
C11_Witness ==
    /\ fetch_status = "returned"
    /\ target_count > 0
    /\ current_block > 0
    /\ failed_queries = max_attempts
    /\ all_events = <<>>
    /\ result = <<>>
    /\ warned
    /\ error = "none"

\* a list of records holds no record twice
NoDuplicates(seq) ==
    \A i, j \in 1 .. Len(seq) : i # j => seq[i] # seq[j]

\* C12: the windows handed to the log filter are pairwise disjoint, so a
\* log of the chain is accumulated at most once and the returned list
\* holds no duplicate record.
C12_NoDuplicateRecord ==
    fetch_status = "returned" => NoDuplicates(result)

\* the number of get_block_timestamp calls made for block b
LookupCount(b) == Cardinality({k \in 1 .. Len(lookups) : lookups[k] = b})

\* the distinct block numbers of the records
InputBlocks == {en_events[i].block_number : i \in 1 .. Len(en_events)}

\* C13: enrich_events_with_timestamps calls get_block_timestamp once per
\* distinct block number of the input, whatever the number of records that
\* share it; every returned record carries a timestamp, records of one
\* block carry the same timestamp, a block whose lookup failed gets 0, and
\* a failed lookup does not make the enrichment raise: it goes on with the
\* next block.
C13_EnrichOncePerBlock ==
    /\ [](\A b \in 0 .. MaxEnrichBlock : LookupCount(b) <= 1)
    /\ [](en_pc = "returned" =>
            /\ \A b \in InputBlocks : LookupCount(b) = 1
            /\ Len(lookups) = Cardinality(InputBlocks)
            /\ \A i \in 1 .. Len(en_events) :
                  /\ en_events[i].timestamp \in 0 .. MaxTimestamp
                  /\ en_events[i].timestamp =
                        block_timestamps[en_events[i].block_number]
                  /\ en_events[i].block_number \in failed_lookups
                        => en_events[i].timestamp = 0
            /\ \A i, j \in 1 .. Len(en_events) :
                  en_events[i].block_number = en_events[j].block_number
                      => en_events[i].timestamp = en_events[j].timestamp)
    /\ [][failed_lookups' # failed_lookups =>
             /\ en_pc' = "loop"
             /\ en_i' = en_i + 1
             /\ error' = error
             /\ block_timestamps'[unique_blocks[en_i]] = 0]_vars

\* C13 witness: three records over two blocks have been enriched with two
\* lookups, the lookup of the shared block having failed.
C13_Witness ==
    /\ en_pc = "returned"
    /\ Len(en_events) = 3
    /\ en_events[1].block_number = en_events[3].block_number
    /\ en_events[1].block_number # en_events[2].block_number
    /\ Len(lookups) = 2
    /\ en_events[1].block_number \in failed_lookups
    /\ en_events[1].timestamp = 0
    /\ en_events[3].timestamp = 0
    /\ en_events[2].timestamp > 0

\* the grand total self.df['amount_usdc'].sum() of the analyzed records
GrandTotal == SeqSum(AmountColumn(an_events))

\* a percentage that is the number 0
IsZeroPct(p) == p.den # 0 /\ p.num = 0

\* C14: on an empty record set analyze() completes without raising and
\* reports 0, or a marker for undefined, as whale and top-N percentages.
C14_EmptyAnalyzeCompletes ==
    (an_op = "analyze" /\ an_events = <<>>) =>
        /\ an_error = "none"
        /\ \A p \in {an_ret.top_whale_percentage,
                     an_ret.top_10_suppliers_percentage,
                     an_ret.top_50_suppliers_percentage} :
              IsZeroPct(p) \/ IsNaN(p)

\* C15: on a non-empty record set whose amounts are all 0, analyze()
\* reports 0 as whale percentage and as top-10 and top-50 percentages.
C15_ZeroTotalGuarded ==
    (an_op = "analyze" /\ an_events # <<>> /\ GrandTotal = 0) =>
        /\ an_error = "none"
        /\ IsZeroPct(an_ret.top_whale_percentage)
        /\ IsZeroPct(an_ret.top_10_suppliers_percentage)
        /\ IsZeroPct(an_ret.top_50_suppliers_percentage)

\* the number of records whose amount is x
RecordsOf(x) == Cardinality({i \in 1 .. Len(an_events) :
                               an_events[i].amount_usdc = x})

\* C16: for every record set _analyze_transaction_sizes returns four counts
\* that sum to the record count, every record counted in one bucket only:
\* amounts below 1000 are small, 1000 is medium, 10000 is large and 100000
\* is whale.
C16_BucketsPartition ==
    an_op = "sizes" =>
        /\ an_error = "none"
        /\ an_ret.small + an_ret.medium + an_ret.large + an_ret.whale
              = Len(an_events)
        /\ an_ret.small = RecordsOf(0)
        /\ an_ret.medium = RecordsOf(1000)
        /\ an_ret.large = RecordsOf(10000)
        /\ an_ret.whale = RecordsOf(100000)

\* the total_usdc and the tx_count column of the rows of a frame
TotalColumn(rows) == [i \in 1 .. Len(rows) |-> rows[i].total_usdc]
CountColumn(rows) == [i \in 1 .. Len(rows) |-> rows[i].tx_count]

\* C17: for a non-empty record set the rows of _analyze_whales hold one row
\* per on_behalf_of address, their totals sum to the grand total and their
\* transaction counts sum to the number of records.
C17_GroupTotalsSumToGrandTotal ==
    (an_op = "whales" /\ an_events # <<>>) =>
        /\ an_error = "none"
        /\ Len(an_ret.all_whales) = Cardinality(Suppliers(an_events))
        /\ {an_ret.all_whales[i].address : i \in 1 .. Len(an_ret.all_whales)}
              = Suppliers(an_events)
        /\ SeqSum(TotalColumn(an_ret.all_whales))
              = GrandTotal
        /\ SeqSum(CountColumn(an_ret.all_whales))
              = Len(an_events)

\* C17 witness: two records of one address, of positive amounts, have been
\* grouped into one row.
C17_Witness ==
    /\ an_op = "whales"
    /\ Len(an_events) = 2
    /\ an_events[1].amount_usdc > 0
    /\ an_events[2].amount_usdc > an_events[1].amount_usdc
    /\ Len(an_ret.all_whales) = 1
    /\ an_ret.all_whales[1].tx_count = 2
    /\ an_ret.total_usdc = GrandTotal

C19_TopSuppliersOrdered ==
    an_op = "top_suppliers" =>
        /\ an_error = "none"
        /\ Len(an_ret) = Min(an_n, Cardinality(Suppliers(an_events)))
        /\ \A i, j \in 1 .. Len(an_ret) :
              /\ i # j => an_ret[i].address # an_ret[j].address
              /\ i < j => an_ret[i].total_usdc >= an_ret[j].total_usdc
        /\ \A i \in 1 .. Len(an_ret) :
              /\ an_ret[i].address \in Suppliers(an_events)
              /\ an_ret[i].total_usdc = GroupSum(an_events, an_ret[i].address)
              /\ an_ret[i].tx_count = GroupCount(an_events, an_ret[i].address)
        /\ Len(an_ret) > 0 =>
              \A a \in Suppliers(an_events) \
                         {an_ret[i].address : i \in 1 .. Len(an_ret)} :
                 GroupSum(an_events, a) <= an_ret[Len(an_ret)].total_usdc

\* C20: an exception that leaves a step of main (no endpoint answering at
\* startup, retry budget used up, analysis or file-writing error) reaches
\* the handler of main, which reports a diagnostic and exits with status
\* 1; an interrupt by the user does the same; status 0 is returned only
\* without error; and when no endpoint answers at startup no window query
\* has been or will be issued.
C20_FailureExitsWithStatusOne ==
    /\ [](error # "none" => pc \in {"main_except", "exited"})
    /\ [](pc = "exited" =>
            /\ exit_status = 1
            /\ error # "none"
            /\ diagnostic = IF error = "KeyboardInterrupt"
                            THEN "interrupted" ELSE "error")
    /\ [](exit_status = 0 => error = "none" /\ pc = "done")
    /\ [][pc = "main_except" =>
             /\ pc' = "exited"
             /\ exit_status' = 1
             /\ diagnostic' = "error"
             /\ error' = error]_vars
    /\ [][error' = "KeyboardInterrupt" =>
             /\ pc' = "exited"
             /\ exit_status' = 1
             /\ diagnostic' = "interrupted"]_vars
    /\ [](pc = "main_except" => ENABLED MainExcept)
    /\ [](error = "ConnectionError" /\ connCaller = "ctor" =>
            /\ queries = 0
            /\ fetch_status = "idle")
    /\ [][(pc = "done" \/ pc = "exited") => queries' = queries]_vars

\* C20 witness: the second CSV file could not be written after the first
\* one was, and main has exited with status 1 after its diagnostic.
C20_Witness ==
    /\ pc = "exited"
    /\ error = "OSError"
    /\ written = {"raw_events"}
    /\ diagnostic = "error"
    /\ exit_status = 1

C22_HeadReadFailureIsFatal ==
    /\ []((execCaller = "block_number" /\ exec_status = "raised"
             /\ retries = RetryBudget) =>
            /\ fetch_status = "raised"
            /\ error # "none"
            /\ queries = 0
            /\ result = <<>>
            /\ ~warned
            /\ pc = "main_except" \/ (pc = "exited" /\ exit_status = 1))
    /\ [][fetch_status = "raised" =>
             /\ fetch_status' = "raised"
             /\ queries' = queries
             /\ pc' = "exited"
             /\ exit_status' = 1]_vars

\* C22 witness: main has exited after the head-block read failed on every
\* endpoint.
C22_Witness ==
    /\ pc = "exited"
    /\ execCaller = "block_number"
    /\ exec_status = "raised"
    /\ fetch_status = "raised"
    /\ retries = RetryBudget
    /\ invocations = RetryBudget
    /\ IsTransient(error)
    /\ queries = 0
    /\ exit_status = 1

\* C23: within one execute_with_retry call the failures numbered
\* MAX_RETRIES, 2 * MAX_RETRIES, ... are followed by a rotation to the next
\* endpoint and a _connect pass and by no sleep; every other failure is
\* followed by one sleep with the cursor and the connection unchanged; so
\* each failure is followed by exactly one of the two.
C23_RotateEveryKthFailure ==
    /\ [][(pc = "exec" /\ invocations' = invocations + 1
             /\ IsTransient(lastInvoke'.raised)) =>
            /\ retries' = retries + 1
            /\ IF retries' % MAX_RETRIES = 0
               THEN /\ current_rpc_index' = (current_rpc_index + 1) % NumEndpoints
                    /\ pc' = "connect"
                    /\ connCaller' = "exec"
                    /\ probed' = <<>>
                    /\ sleeps' = sleeps
               ELSE /\ sleeps' = sleeps + 1
                    /\ current_rpc_index' = current_rpc_index
                    /\ w3' = w3
                    /\ pc' = "exec"]_vars
    /\ [](exec_status = "running" =>
            /\ invocations = retries
            /\ sleeps = retries - (retries \div MAX_RETRIES))
    /\ [][sleeps' # sleeps =>
             \/ sleeps' = 0
             \/ sleeps' = sleeps + 1 /\ invocations' = invocations + 1]_vars

\* C23 witness: the call is about to invoke the operation for the
\* (MAX_RETRIES + 2)-th time, after MAX_RETRIES - 1 sleeps, one rotation
\* that connected to the next endpoint, and one more sleep.
C23_Witness ==
    /\ pc = "exec"
    /\ exec_status = "running"
    /\ retries = MAX_RETRIES + 1
    /\ sleeps = MAX_RETRIES
    /\ current_rpc_index = 1
    /\ w3 = 1

\* the endpoint probed i-th by a pass that started at cursor start
CircularFrom(start, i) == (start + i - 1) % NumEndpoints

\* C24: a connect pass probes the endpoint under the cursor first and then
\* the next ones in circular list order, the cursor advancing by one
\* (modulo the list length) after each failed probe; the pass stops at the
\* first probe that answers, with the cursor on that endpoint, which is
\* the current connection, and probes nothing after it.
C24_ProbesInCircularOrder ==
    /\ [](\A i \in 1 .. Len(probed) : probed[i] = CircularFrom(probed[1], i))
    /\ []((pc = "connect" /\ probed # <<>>) =>
            current_rpc_index = CircularFrom(probed[1], Len(probed) + 1))
    /\ [][(probed' # probed /\ probed' # <<>>) =>
            /\ pc = "connect"
            /\ probed' = Append(probed, current_rpc_index)
            /\ \/ /\ pc' # "connect"
                  /\ error' = error
                  /\ current_rpc_index' = current_rpc_index
                  /\ w3' = current_rpc_index
               \/ /\ current_rpc_index' = (current_rpc_index + 1) % NumEndpoints
                  /\ pc' = "connect" \/ error' = "ConnectionError"]_vars
    /\ [][pc # "connect" => (probed' = probed \/ probed' = <<>>)]_vars

\* C24 witness: a pass that started at the last endpoint of the list failed
\* there, wrapped around to endpoint 0 and stopped on its answer.
C24_Witness ==
    /\ pc = "exec"
    /\ Len(probed) = 2
    /\ probed[1] = NumEndpoints - 1
    /\ probed[2] = 0
    /\ current_rpc_index = 0
    /\ w3 = 0

\* C25: the first window of a fetch has the head block as upper bound,
\* every later window has the previous window's lower bound as upper
\* bound, every lower bound is max(0, upper bound - batch width), below the
\* previous lower bound, and this is so after a successful and after a
\* failed window query alike.
C25_WindowsMoveBackward ==
    /\ [][queries' # queries =>
            /\ queries' = queries + 1
            /\ queries = 0 => to_block' = current_block
            /\ to_block' = from_block
            /\ from_block' = Max(0, to_block' - BLOCKS_PER_BATCH)
            /\ from_block' < from_block]_vars
    /\ []((pc = "fetch_loop" /\ queries = 0) => from_block = current_block)
    /\ []((pc = "fetch_loop" /\ queries > 0) =>
            /\ to_block = current_block - (queries - 1) * BLOCKS_PER_BATCH
            /\ to_block > 0
            /\ from_block = Max(0, current_block - queries * BLOCKS_PER_BATCH))

\* C25 witness: the third window of a fetch has been queried after a
\* failed and a successful one, three batch widths below the head.
C25_Witness ==
    /\ pc = "fetch_loop"
    /\ queries = 3
    /\ failed_queries = 1
    /\ all_events # <<>>
    /\ to_block = current_block - 2 * BLOCKS_PER_BATCH
    /\ from_block = current_block - 3 * BLOCKS_PER_BATCH
    /\ from_block > 0

\* C26: the j-th failing window query of a fetch, j counted over the whole
\* fetch and not reset by successful windows, is followed by a sleep of
\* 2^j time units; a successful window is followed by no sleep; the query
\* after a failure is for the next older window, never for the window that
\* failed.
C26_ExponentialBackoff ==
    /\ [][failed_queries' # failed_queries =>
            /\ queries' = queries + 1
            /\ failed_queries' = failed_queries + 1
            /\ failed_queries' <= max_attempts
            /\ attempt' = failed_queries'
            /\ fetch_slept' = fetch_slept + 2 ^ failed_queries']_vars
    /\ [][(queries' # queries /\ failed_queries' = failed_queries) =>
            /\ attempt' = attempt
            /\ fetch_slept' = fetch_slept]_vars
    /\ [][(queries' # queries /\ queries > 0) =>
            /\ to_block' = from_block
            /\ to_block' < to_block
            /\ from_block' < from_block]_vars
    /\ [](pc = "fetch_loop" =>
            /\ attempt = failed_queries
            /\ fetch_slept = 2 ^ (failed_queries + 1) - 2)

\* C26 witness: two of the three windows queried so far have failed, one
\* has brought records, and the fetch has slept 2 + 4 time units.
C26_Witness ==
    /\ pc = "fetch_loop"
    /\ queries = 3
    /\ failed_queries = 2
    /\ attempt = 2
    /\ all_events # <<>>
    /\ fetch_slept = 6

\* main is past the construction of the analyzer and the call of analyze()
AfterAnalyze == pc = "main_step5" \/ pc = "save_summary" \/ pc = "main_report"

\* C27: when fetch_supply_events has returned an empty list main returns
\* at once, so no analyzer is built, analyze() and save_to_csv() are not
\* called and no file is written; and save_to_csv() runs only after
\* analyze() has returned without error on a non-empty list.
C27_NoAnalysisOnEmptyResult ==
    /\ [][(pc = "main_check" /\ result = <<>> /\ NoInterrupt) =>
            /\ pc' = "done"
            /\ exit_status' = 0
            /\ error' = "none"
            /\ written' = written]_vars
    /\ [][(AfterAnalyze' /\ ~AfterAnalyze) =>
            /\ pc = "main_check"
            /\ pc' = "main_step5"
            /\ result # <<>>
            /\ error' = "none"]_vars
    /\ [][written' # written =>
            /\ AfterAnalyze
            /\ error = "none"
            /\ result # <<>>]_vars
    /\ []((result = <<>> \/ error = "AnalysisError") => written = {})

\* C27 witness: main has returned with status 0 and no file after a fetch
\* that queried windows and came back empty, with its warning.
C27_Witness ==
    /\ pc = "done"
    /\ result = <<>>
    /\ warned
    /\ queries > 0
    /\ written = {}
    /\ error = "none"
    /\ exit_status = 0

\* the number of records naming address a
RecordsNaming(a) ==
    Cardinality({i \in 1 .. Len(an_events) : an_events[i].on_behalf_of = a})

\* C28: for a non-empty record set the whale reported by analyze() is an
\* address of the records whose total is at least the total of every
\* address, reported with its own total and with the number of records
\* that name it, and a get_top_suppliers(n) that follows, n >= 1, has that
\* address with the same total and count as its first row.
C28_WhaleIsTopSupplier ==
    /\ (an_op = "analyze" /\ an_events # <<>>) =>
          /\ an_error = "none"
          /\ an_ret.top_whale_address \in Suppliers(an_events)
          /\ \A a \in Suppliers(an_events) :
                GroupSum(an_events, a) <= an_ret.top_whale_total_usdc
          /\ an_ret.top_whale_total_usdc =
                GroupSum(an_events, an_ret.top_whale_address)
          /\ an_ret.top_whale_tx_count = RecordsNaming(an_ret.top_whale_address)
          /\ an_whale.address = an_ret.top_whale_address
          /\ an_whale.total_usdc = an_ret.top_whale_total_usdc
          /\ an_whale.tx_count = an_ret.top_whale_tx_count
    /\ (an_op = "top_suppliers" /\ an_whale.address # None /\ an_n >= 1) =>
          /\ an_error = "none"
          /\ Len(an_ret) >= 1
          /\ an_ret[1].address = an_whale.address
          /\ an_ret[1].total_usdc = an_whale.total_usdc
          /\ an_ret[1].tx_count = an_whale.tx_count

\* C28 witness: of two addresses the one with the single larger record is
\* the whale of analyze(), ahead of the address of the first record, and
\* heads the get_top_suppliers(2) that followed.
C28_Witness ==
    /\ an_op = "top_suppliers"
    /\ an_n = 2
    /\ Len(an_events) = 2
    /\ an_events[1].on_behalf_of = 1
    /\ an_events[2].on_behalf_of = 2
    /\ an_events[1].amount_usdc < an_events[2].amount_usdc
    /\ an_whale.address = 2
    /\ an_whale.tx_count = 1
    /\ Len(an_ret) = 2
    /\ an_ret[1].address = 2

\* C29: get_implementation_address calls its candidates in the order
\* implementation, getImplementation; it returns the answer of the first
\* candidate that succeeds and calls no candidate after it; it raises
\* ValueError only when every candidate was called and failed; main catches
\* that error and goes on to step 3 with the pool address, and with the
\* returned address when there is one.
C29_ImplementationLookup ==
    /\ [](IsPrefix(im_tried, <<"implementation", "getImplementation">>))
    /\ [](IsPrefix(im_failed, im_tried))
    /\ [](im_pc = "returned" =>
            /\ im_ret \in ImplAddresses
            /\ Len(im_tried) = Len(im_failed) + 1
            /\ im_error = "none")
    /\ [][(im_pc = "returned" \/ im_pc = "raised" \/ im_pc = "done") =>
            (im_tried' = im_tried /\ im_ret' = im_ret)]_vars
    /\ [](im_error = "ValueError" =>
            /\ im_failed = <<"implementation", "getImplementation">>
            /\ im_ret = "none")
    /\ []((im_pc = "raised" /\ pc = "main_step2") => ENABLED MainFallBack)
    /\ [][(im_pc = "raised" /\ NoInterrupt) =>
            (/\ pc' = "main_step3"
             /\ error' = "none"
             /\ exit_status' = None
             /\ contract_address' = PoolAddress)]_vars
    /\ [](pc = "main_step3" =>
            contract_address = IF im_error = "ValueError" THEN PoolAddress
                               ELSE im_ret)

\* the first candidate failed, the second answered, and main went on with
\* the implementation address
C29_Witness ==
    /\ pc = "main_step3"
    /\ im_tried = <<"implementation", "getImplementation">>
    /\ im_failed = <<"implementation">>
    /\ contract_address = im_ret
    /\ im_ret \in ImplAddresses

\* C30: a window query of fetch_supply_events that fails leaves the
\* connection manager as it was, the endpoint cursor and the current
\* connection being the same after the failure as before it, and all the
\* window queries of one fetch are issued on one connection, whatever the
\* number of failures.
C30_QueryFailureLeavesManager ==
    /\ [][failed_queries' = failed_queries + 1 =>
            (/\ current_rpc_index' = current_rpc_index
             /\ w3' = w3
             /\ connCaller' = connCaller
             /\ probed' = probed)]_vars
    /\ [](queries > 0 => Cardinality(query_w3) = 1)
    /\ [][(queries' = queries + 1 /\ queries > 0) => query_w3' = query_w3]_vars

\* every allowed failure has happened, on a manager whose connection is not
\* the one the contract was loaded on
C30_Witness ==
    /\ pc = "fetch_loop"
    /\ failed_queries = max_attempts
    /\ queries > failed_queries
    /\ Cardinality(query_w3) = 1
    /\ w3 \notin query_w3

\* C31: in every state of the connection manager current_rpc_index is an
\* index of the endpoint list, and whenever the constructor or
\* execute_with_retry has returned normally the manager's w3 is the
\* connection made to the endpoint at current_rpc_index.
C31_ConnectionAtCursor ==
    /\ current_rpc_index \in Endpoints
    /\ (pc = "main_get_web3" \/ exec_status = "returned") =>
          w3 = current_rpc_index

\* ceil(a / b) for b > 0
CeilDiv(a, b) == (a + b - 1) \div b

\* C32: once the head block is known fetch_supply_events terminates: every
\* loop iteration, whether its query succeeds or fails, moves from_block
\* strictly down and never below 0, at most ceil(head / batch width) windows
\* are queried whatever the failures and target_count, and the loop returns
\* as soon as its condition is false.
C32_FetchLoopBounded ==
    /\ [][queries' = queries + 1 =>
            (/\ pc = "fetch_loop"
             /\ from_block' < from_block
             /\ from_block' >= 0)]_vars
    /\ []((pc = "fetch_loop" \/ pc = "main_check") =>
            /\ queries <= CeilDiv(current_block, BLOCKS_PER_BATCH)
            /\ from_block <= current_block)
    /\ []((pc = "fetch_loop" /\ from_block = 0) => ENABLED FetchReturn)

\* every window down to block 0 was queried, some of the queries failing
C32_Witness ==
    /\ pc = "fetch_loop"
    /\ current_block >= 2
    /\ from_block = 0
    /\ queries = CeilDiv(current_block, BLOCKS_PER_BATCH)
    /\ failed_queries >= 1
    /\ target_count > Len(all_events)

====
